---- MODULE Spec2Model ----
(***************************************************************************)
(* GURLS-Bot: the Telegram front-end of the GURLS link shortener.          *)
(* The model covers internal/bot/bot.go: the per-user conversation state   *)
(* (Bot.userStates), the routing of one update (processUpdate and the      *)
(* handlers it calls), the requests sent to the backend and the messages   *)
(* sent back.  Texts are sequences of one-character strings, and the       *)
(* regular expressions of bot.go are computed on them.                     *)
(***************************************************************************)
EXTENDS Integers, Sequences, FiniteSets, TLC

(***************************************************************************)
(* Characters and character classes (Go regexp, ASCII classes).            *)
(***************************************************************************)
LowerLetters ==
    {"a","b","c","d","e","f","g","h","i","j","k","l","m",
     "n","o","p","q","r","s","t","u","v","w","x","y","z"}
UpperLetters == {"A","T","Z"}
Digits == {"0","1","2","3","4","5","6","7","8","9"}
\* \s of the regular expressions
SpaceChars == {" ", "\n", "\t"}
\* unicode.IsSpace, which strings.TrimSpace uses: \s and more, of which the
\* no-break space, written "NBSP", stands here
UnicodeSpaceChars == SpaceChars \cup {"NBSP"}
QUOTE == "\""

\* \S
NonSpace(c) == c \notin SpaceChars
\* \w  (and [\w\d], which is the same class)
WordChar(c) == c \in LowerLetters \cup UpperLetters \cup Digits \cup {"_"}
\* [\w\-]
WordOrHyphen(c) == WordChar(c) \/ c = "-"
\* [a-zA-Z0-9\-]
AliasChar(c) == c \in LowerLetters \cup UpperLetters \cup Digits \cup {"-"}
\* [^"]
NotQuote(c) == c # QUOTE
IsDigit(c) == c \in Digits
NotDigit(c) == c \notin Digits

\* Membership of c in a character class, the class given by its name.
InClass(c, class) ==
    CASE class = "NonSpace" -> NonSpace(c)
      [] class = "WordChar" -> WordChar(c)
      [] class = "WordOrHyphen" -> WordOrHyphen(c)
      [] class = "NotQuote" -> NotQuote(c)
      [] class = "IsDigit" -> IsDigit(c)
      [] class = "NotDigit" -> NotDigit(c)

(***************************************************************************)
(* Optional values (Go pointers that may be nil): <<>> is nil, <<v>> is a  *)
(* pointer to v.                                                           *)
(***************************************************************************)
Nil == <<>>
Ptr(v) == <<v>>

(***************************************************************************)
(* String helpers.                                                         *)
(***************************************************************************)
\* strings.HasPrefix(SubSeq(t, i, Len(t)), w)
HasAt(t, i, w) ==
    /\ i >= 1
    /\ i + Len(w) - 1 <= Len(t)
    /\ SubSeq(t, i, i + Len(w) - 1) = w

\* Last index of the maximal run of characters of a class that starts at
\* j (j - 1 when the run is empty): how a greedy [class]+ consumes.
RunEnd(t, j, class) ==
    CHOOSE k \in (j - 1)..Len(t) :
        /\ \A m \in j..k : InClass(t[m], class)
        /\ (k = Len(t) \/ ~InClass(t[k + 1], class))

Min(S) == CHOOSE x \in S : \A y \in S : x <= y

\* strings.TrimSpace
TrimSpace(t) ==
    LET keep == {i \in 1..Len(t) : t[i] \notin UnicodeSpaceChars}
    IN  IF keep = {} THEN <<>>
        ELSE SubSeq(t, Min(keep), CHOOSE x \in keep : \A y \in keep : y <= x)

\* strings.TrimPrefix
TrimPrefix(t, w) ==
    IF HasAt(t, 1, w) THEN SubSeq(t, Len(w) + 1, Len(t)) ELSE t

(***************************************************************************)
(* Literal pieces of the regular expressions and of the callback data.     *)
(***************************************************************************)
kHttp == <<"h","t","t","p",":","/","/">>
kHttps == <<"h","t","t","p","s",":","/","/">>
kTitleEq == <<"t","i","t","l","e","=",QUOTE>>
kAliasEq == <<"a","l","i","a","s","=">>
kExpiresInEq == <<"e","x","p","i","r","e","s","_","i","n","=">>
kStats == <<"s","t","a","t","s","_">>
kDelete == <<"d","e","l","e","t","e","_">>

callbackCreateLink == <<"c","r","e","a","t","e","_","l","i","n","k">>
callbackMyLinks == <<"m","y","_","l","i","n","k","s">>
callbackHelp == <<"h","e","l","p">>
callbackCancel == <<"c","a","n","c","e","l">>
callbackCustomAlias == <<"c","u","s","t","o","m","_","a","l","i","a","s">>

(***************************************************************************)
(* The regular expressions of bot.go.                                      *)
(***************************************************************************)
\* Positions where `https?://\S+` matches.
urlStarts(t) ==
    {i \in 1..Len(t) :
        \/ HasAt(t, i, kHttps) /\ i + 8 <= Len(t) /\ NonSpace(t[i + 8])
        \/ HasAt(t, i, kHttp) /\ i + 7 <= Len(t) /\ NonSpace(t[i + 7])}

\* urlRegex.MatchString
urlRegexMatchString(t) == urlStarts(t) # {}

\* urlRegex.FindString: the leftmost match, \S+ greedy; "" when none.
urlRegexFindString(t) ==
    IF urlStarts(t) = {} THEN <<>>
    ELSE LET i == Min(urlStarts(t))
         IN  SubSeq(t, i, RunEnd(t, i, "NonSpace"))

\* titleRegex.FindStringSubmatch: Nil, or a pointer to group 1 of the
\* leftmost match of `title="([^"]+)"`.
titleRegexFind(t) ==
    LET starts == {i \in 1..Len(t) :
                     /\ HasAt(t, i, kTitleEq)
                     /\ RunEnd(t, i + 7, "NotQuote") >= i + 7
                     /\ RunEnd(t, i + 7, "NotQuote") < Len(t)}
    IN  IF starts = {} THEN Nil
        ELSE LET i == Min(starts)
             IN  Ptr(SubSeq(t, i + 7, RunEnd(t, i + 7, "NotQuote")))

\* aliasRegex.FindStringSubmatch: group 1 of `alias=([\w\-]+)`.
aliasRegexFind(t) ==
    LET starts == {i \in 1..Len(t) :
                     /\ HasAt(t, i, kAliasEq)
                     /\ RunEnd(t, i + 6, "WordOrHyphen") >= i + 6}
    IN  IF starts = {} THEN Nil
        ELSE LET i == Min(starts)
             IN  Ptr(SubSeq(t, i + 6, RunEnd(t, i + 6, "WordOrHyphen")))

\* expiresInRegex.FindStringSubmatch: group 1 of `expires_in=([\w\d]+)`.
expiresInRegexFind(t) ==
    LET starts == {i \in 1..Len(t) :
                     /\ HasAt(t, i, kExpiresInEq)
                     /\ RunEnd(t, i + 11, "WordChar") >= i + 11}
    IN  IF starts = {} THEN Nil
        ELSE LET i == Min(starts)
             IN  Ptr(SubSeq(t, i + 11, RunEnd(t, i + 11, "WordChar")))

\* The longest alias customAliasRegex accepts.
MaxAliasLen == 20

\* customAliasRegex.MatchString with the pattern of aliasRegex, `^[\w\-]+$`
customAliasRegexMatchLoose(a) ==
    /\ Len(a) >= 1
    /\ RunEnd(a, 1, "WordOrHyphen") = Len(a)

\* customAliasRegex.MatchString: `^[a-zA-Z0-9\-]{1,20}$`
customAliasRegexMatchString(a) ==
    /\ Len(a) >= 1
    /\ Len(a) <= MaxAliasLen
    /\ \A i \in 1..Len(a) : AliasChar(a[i])

(***************************************************************************)
(* time.ParseDuration on the strings expiresInRegex can capture (word      *)
(* characters only: no sign, no fraction).  A duration is kept as whole    *)
(* seconds plus nanoseconds, since Go's int64 nanoseconds exceed the range *)
(* of the model's integers.                                                *)
(***************************************************************************)
NanosPerSecond == 1000000000

DigitVal(c) ==
    CASE c = "0" -> 0 [] c = "1" -> 1 [] c = "2" -> 2 [] c = "3" -> 3
      [] c = "4" -> 4 [] c = "5" -> 5 [] c = "6" -> 6 [] c = "7" -> 7
      [] c = "8" -> 8 [] c = "9" -> 9

\* leadingInt: the value of the digits t[i..k]
RECURSIVE leadingInt(_, _, _)
leadingInt(t, i, k) ==
    IF k < i THEN 0 ELSE 10 * leadingInt(t, i, k - 1) + DigitVal(t[k])

\* unitMap: the units time.ParseDuration knows ("µs" is not made of word
\* characters and cannot be captured).
unitMap ==
    (<<"n","s">> :> [sec |-> 0, nsec |-> 1]) @@
    (<<"u","s">> :> [sec |-> 0, nsec |-> 1000]) @@
    (<<"m","s">> :> [sec |-> 0, nsec |-> 1000000]) @@
    (<<"s">> :> [sec |-> 1, nsec |-> 0]) @@
    (<<"m">> :> [sec |-> 60, nsec |-> 0]) @@
    (<<"h">> :> [sec |-> 3600, nsec |-> 0])

DurAdd(a, b) ==
    [sec |-> a.sec + b.sec + ((a.nsec + b.nsec) \div NanosPerSecond),
     nsec |-> (a.nsec + b.nsec) % NanosPerSecond]

DurScale(v, unit) ==
    [sec |-> v * unit.sec + ((v * unit.nsec) \div NanosPerSecond),
     nsec |-> (v * unit.nsec) % NanosPerSecond]

\* The loop of time.ParseDuration from position i on, d the sum so far:
\* the digits t[i..k], then the unit u, which runs to the next digit.
RECURSIVE parseDurationFrom(_, _, _)

parseDurationUnit(t, i, d, k, m, u) ==
    IF m < k + 1 THEN [ok |-> FALSE, d |-> d]
    ELSE IF u \notin DOMAIN unitMap THEN [ok |-> FALSE, d |-> d]
    ELSE parseDurationFrom(t, m + 1,
             DurAdd(d, DurScale(leadingInt(t, i, k), unitMap[u])))

parseDurationTerm(t, i, d, k, m) ==
    parseDurationUnit(t, i, d, k, m, SubSeq(t, k + 1, m))

parseDurationDigits(t, i, d, k) ==
    parseDurationTerm(t, i, d, k, RunEnd(t, k + 1, "NotDigit"))

parseDurationFrom(t, i, d) ==
    IF i > Len(t) THEN [ok |-> TRUE, d |-> d]
    ELSE IF ~IsDigit(t[i]) THEN [ok |-> FALSE, d |-> d]
    ELSE parseDurationDigits(t, i, d, RunEnd(t, i, "IsDigit"))

\* time.ParseDuration: ok is "err == nil".
ParseDuration(t) ==
    IF t = <<"0">> THEN [ok |-> TRUE, d |-> [sec |-> 0, nsec |-> 0]]
    ELSE IF t = <<>> THEN [ok |-> FALSE, d |-> [sec |-> 0, nsec |-> 0]]
    ELSE parseDurationFrom(t, 1, [sec |-> 0, nsec |-> 0])

\* time.Now().Add(d), the clock read as whole seconds.
TimeAdd(nowSec, d) == [sec |-> nowSec + d.sec, nsec |-> d.nsec]

(***************************************************************************)
(* Bot message constants (bot.go, const block).                            *)
(***************************************************************************)
msgHelp == "URL Shortener Bot\n\nCreate and manage short links efficiently.\nSelect an action below:"
msgUseShortenCommand == "Send a URL to create a short link or use the buttons below:"
msgInvalidShortenFormat == "Invalid format. Please send a valid URL (e.g., https://example.com)"
msgLinkSuccessfullyShortened == "Link created successfully.\n\nShort URL: %s"
msgLinkStats == "Link Statistics: %s%s\n\nOriginal URL: %s\nTotal Clicks: %d\nExpires: %s%s"
msgUnknownCommand == "Unknown command. Use /start to see available options."
msgInvalidCommandFormat == "Invalid command format. Use: /%s <alias>"
msgLinkNotFound == "Link with alias '%s' not found."
msgInternalError == "Internal error occurred. Please try again later."
msgLinkDeleted == "Link '%s' has been deleted successfully."
msgMyLinksHeader == "Your Links:"
msgNoLinks == "You have no links yet.\nCreate your first link!"
msgAliasTaken == "Alias '%s' is already taken. Please choose another one."
msgSendCustomAlias == "Send your custom alias (letters, numbers, hyphens only):"
msgSendUrlWithAlias == "Now send the URL you want to shorten with alias '%s':"
msgSendURLPrompt == "Send a URL to create a short link:"
msgInvalidAliasFormat == "Invalid alias format. Use only letters, numbers, and hyphens (1-20 characters)."

\* User states
StateNormal == "normal"
StateWaitingForAlias == "waiting_for_alias"
StateWaitingForURL == "waiting_for_url"

\* config.HTTPServer.BaseURL, the public base of the short links
BaseURL == <<"B">>

\* gRPC status codes an RPC can end with ("Unavailable" stands for every
\* code the handlers do not single out).
CodeOK == "OK"
CodeAlreadyExists == "AlreadyExists"
CodeNotFound == "NotFound"
CodeUnavailable == "Unavailable"

(***************************************************************************)
(* Inline keyboards: rows of buttons, each button its callback data.       *)
(***************************************************************************)
NoKeyboard == <<>>

createMainKeyboard ==
    << <<callbackCreateLink>>, <<callbackMyLinks>>, <<callbackHelp>> >>

createLinkActionsKeyboard(alias) ==
    << <<kStats \o alias, kDelete \o alias>>,
       <<callbackMyLinks, callbackCreateLink>> >>

createCreateLinkKeyboard ==
    << <<callbackCustomAlias>>, <<callbackHelp>> >>

statsKeyboard(alias) ==
    << <<kDelete \o alias>>, <<callbackMyLinks, callbackHelp>> >>

deletedKeyboard ==
    << <<callbackCreateLink>>, <<callbackMyLinks, callbackHelp>> >>

(***************************************************************************)
(* The result of running a handler: the store after it, the backend calls  *)
(* it made, the messages it handed to the transport, what it logged, the   *)
(* error it returned and whether it panicked.                              *)
(***************************************************************************)
Result(us, calls, sent, logged, err, panicked) ==
    [us |-> us, calls |-> calls, sent |-> sent, logged |-> logged,
     err |-> err, panicked |-> panicked]

Message(chatID, text, args, markdown, keyboard) ==
    [chatID |-> chatID, text |-> text, args |-> args,
     markdown |-> markdown, keyboard |-> keyboard]

\* sendMessage: one message to the transport; the error is api.Send's.
sendMessage(us, calls, logged, chatID, text, args, useMarkdown, in) ==
    Result(us, calls, <<Message(chatID, text, args, useMarkdown, NoKeyboard)>>,
           logged, ~in.sendOk, FALSE)

\* sendMessageWithKeyboard
sendMessageWithKeyboard(us, calls, logged, chatID, text, args, keyboard, in) ==
    Result(us, calls, <<Message(chatID, text, args, FALSE, keyboard)>>,
           logged, ~in.sendOk, FALSE)

\* A backend call as the handlers see it: the request and the status code
\* the RPC ended with.
Call(op, req, in) == [op |-> op, req |-> req, code |-> in.reply.code]

\* grpc/client: every failed RPC is logged by the client before the error
\* is returned to the handler.
clientLog(op, in) ==
    IF in.reply.code = CodeOK THEN <<>>
    ELSE CASE op = "CreateLink" -> <<"failed to create link via backend">>
           [] op = "GetLinkStats" -> <<"failed to get link stats via backend">>
           [] op = "DeleteLink" -> <<"failed to delete link via backend">>
           [] op = "ListUserLinks" -> <<"failed to list user links via backend">>

(***************************************************************************)
(* User state management.                                                  *)
(***************************************************************************)
UserState(state, customAlias) == [State |-> state, CustomAlias |-> customAlias]

getUserState(us, userID) ==
    IF userID \in DOMAIN us THEN us[userID] ELSE UserState(StateNormal, <<>>)

\* setUserState merging into the record: an empty alias keeps the old one
setUserStateKeepsAlias(us, userID, state, customAlias) ==
    [u \in (DOMAIN us) \cup {userID} |->
        IF u = userID
        THEN UserState(state, IF customAlias = <<>>
                              THEN getUserState(us, userID).CustomAlias
                              ELSE customAlias)
        ELSE us[u]]

setUserState(us, userID, state, customAlias) ==
    [u \in (DOMAIN us) \cup {userID} |->
        IF u = userID THEN UserState(state, customAlias) ELSE us[u]]

\* resetUserState dropping every user's record
resetUserStateOfAll(us, userID) == <<>>

resetUserState(us, userID) ==
    [u \in (DOMAIN us) \ {userID} |-> us[u]]

(***************************************************************************)
(* Command handlers.  `in` carries what the handler reads from outside:    *)
(* in.reply, the backend's answer should the handler call it; in.sendOk,   *)
(* whether api.Send succeeds; in.ackOk, whether the callback answer        *)
(* succeeds; in.now, the clock.                                            *)
(***************************************************************************)
\* req.ExpiresAt: set when expires_in is present and parses as a duration.
\* expiresAtOf with the error of time.ParseDuration not looked at
expiresAtOfAnyResult(duration, now) == Ptr(TimeAdd(now, duration.d))

expiresAtOf(duration, now) ==
    IF duration.ok THEN Ptr(TimeAdd(now, duration.d)) ELSE Nil

shortenExpiresAt(expiresInMatch, now) ==
    IF expiresInMatch = Nil THEN Nil
    ELSE expiresAtOf(ParseDuration(expiresInMatch[1]), now)

\* The CreateLinkRequest handleShortenCommand builds from its arguments.
shortenRequest(chatID, args, now) ==
    [OriginalUrl |-> urlRegexFindString(args),
     UserTgId |-> chatID,
     Title |-> titleRegexFind(args),
     CustomAlias |-> aliasRegexFind(args),
     ExpiresAt |-> shortenExpiresAt(expiresInRegexFind(args), now)]

\* handleShortenCommand once the URL is matched and the request is built.
shortenWith(us, chatID, urlMatch, req, in) ==
    LET calls == <<Call("CreateLink", req, in)>>
        logged == clientLog("CreateLink", in)
    IN  IF urlMatch = <<>>
        THEN sendMessage(us, <<>>, <<>>, chatID, msgInvalidShortenFormat, <<>>, TRUE, in)
        ELSE IF in.reply.code # CodeOK
        THEN IF in.reply.code = CodeAlreadyExists
             THEN IF req.CustomAlias = Nil
                  \* *req.CustomAlias with a nil pointer: the goroutine panics
                  THEN Result(us, calls, <<>>, logged, FALSE, TRUE)
                  ELSE sendMessage(us, calls, logged, chatID, msgAliasTaken,
                                   <<req.CustomAlias[1]>>, FALSE, in)
             ELSE sendMessage(us, calls, logged \o <<"gRPC CreateLink failed">>,
                              chatID, msgInternalError, <<>>, FALSE, in)
        ELSE sendMessageWithKeyboard(us, calls, logged, chatID,
                 msgLinkSuccessfullyShortened,
                 <<BaseURL \o <<"/">> \o in.reply.alias>>,
                 createLinkActionsKeyboard(in.reply.alias), in)

handleShortenCommand(us, chatID, args, in) ==
    shortenWith(us, chatID, urlRegexFindString(args),
                shortenRequest(chatID, args, in.now), in)

\* The longest title a list view shows in full, and what a longer one is
\* cut to.
TitleLimit == 50
TitleCut == 47

listTitle(link) ==
    LET title == IF link.Title # Nil /\ link.Title[1] # <<>>
                 THEN link.Title[1] ELSE link.OriginalUrl
    IN  IF Len(title) > TitleLimit
        THEN SubSeq(title, 1, TitleCut) \o <<".", ".", ".">>
        ELSE title

handleMyLinksCommand(us, chatID, in) ==
    LET req == [UserTgId |-> chatID]
        calls == <<Call("ListUserLinks", req, in)>>
        logged == clientLog("ListUserLinks", in)
        links == in.reply.links
    IN  IF in.reply.code # CodeOK
        THEN sendMessage(us, calls, logged \o <<"gRPC ListUserLinks failed">>,
                         chatID, msgInternalError, <<>>, FALSE, in)
        ELSE IF Len(links) = 0
        THEN sendMessageWithKeyboard(us, calls, logged, chatID, msgNoLinks, <<>>,
                                     createMainKeyboard, in)
        ELSE sendMessageWithKeyboard(us, calls, logged, chatID, msgMyLinksHeader,
                 [i \in 1..Len(links) |->
                     <<listTitle(links[i]), BaseURL \o <<"/">> \o links[i].Alias>>],
                 [i \in 1..Len(links) |->
                     <<kStats \o links[i].Alias, kDelete \o links[i].Alias>>]
                 \o << <<callbackCreateLink>>, <<callbackHelp>> >>, in)

\* handleStatsCommand after alias = strings.TrimSpace(alias)
statsOf(us, chatID, alias, in) ==
    LET req == [Alias |-> alias]
        calls == <<Call("GetLinkStats", req, in)>>
        logged == clientLog("GetLinkStats", in)
        res == in.reply.stats
    IN  IF alias = <<>>
        THEN sendMessage(us, <<>>, <<>>, chatID, msgInvalidCommandFormat,
                         <<"stats">>, FALSE, in)
        ELSE IF in.reply.code # CodeOK
        THEN IF in.reply.code = CodeNotFound
             THEN sendMessage(us, calls, logged, chatID, msgLinkNotFound,
                              <<alias>>, FALSE, in)
             ELSE sendMessage(us, calls, logged \o <<"gRPC GetLinkStats failed">>,
                              chatID, msgInternalError, <<>>, FALSE, in)
        ELSE sendMessageWithKeyboard(us, calls, logged, chatID, msgLinkStats,
                 <<alias, res.Title, res.OriginalUrl, res.ClickCount,
                   res.ExpiresAt, res.ClicksByDevice>>,
                 statsKeyboard(alias), in)

handleStatsCommand(us, chatID, rawAlias, in) ==
    statsOf(us, chatID, TrimSpace(rawAlias), in)

\* handleDeleteCommand after alias = strings.TrimSpace(alias)
deleteOf(us, chatID, alias, in) ==
    LET req == [Alias |-> alias]
        calls == <<Call("DeleteLink", req, in)>>
        logged == clientLog("DeleteLink", in)
    IN  IF alias = <<>>
        THEN sendMessage(us, <<>>, <<>>, chatID, msgInvalidCommandFormat,
                         <<"delete">>, FALSE, in)
        ELSE IF in.reply.code # CodeOK
        THEN IF in.reply.code = CodeNotFound
             THEN sendMessage(us, calls, logged, chatID, msgLinkNotFound,
                              <<alias>>, FALSE, in)
             ELSE sendMessage(us, calls, logged \o <<"gRPC DeleteLink failed">>,
                              chatID, msgInternalError, <<>>, FALSE, in)
        ELSE sendMessageWithKeyboard(us, calls, logged, chatID, msgLinkDeleted,
                                     <<alias>>, deletedKeyboard, in)

\* handleDeleteCommand without the TrimSpace
handleDeleteCommandNoTrim(us, chatID, rawAlias, in) ==
    deleteOf(us, chatID, rawAlias, in)

handleDeleteCommand(us, chatID, rawAlias, in) ==
    deleteOf(us, chatID, TrimSpace(rawAlias), in)

\* handleCommand with the default branch looking at the user's state
handleCommandByState(us, chatID, command, args, in) ==
    CASE command = "start" ->
           sendMessageWithKeyboard(us, <<>>, <<>>, chatID, msgHelp, <<>>,
                                   createMainKeyboard, in)
      [] command = "shorten" -> handleShortenCommand(us, chatID, args, in)
      [] command = "stats" -> handleStatsCommand(us, chatID, args, in)
      [] command = "delete" -> handleDeleteCommand(us, chatID, args, in)
      [] command = "my_links" -> handleMyLinksCommand(us, chatID, in)
      [] OTHER -> IF getUserState(us, chatID).State = StateNormal
                  THEN sendMessage(us, <<>>, <<>>, chatID, msgUnknownCommand,
                                   <<>>, FALSE, in)
                  ELSE sendMessage(us, <<>>, <<>>, chatID, msgInvalidAliasFormat,
                                   <<>>, FALSE, in)

handleCommand(us, chatID, command, args, in) ==
    CASE command = "start" ->
           sendMessageWithKeyboard(us, <<>>, <<>>, chatID, msgHelp, <<>>,
                                   createMainKeyboard, in)
      [] command = "shorten" -> handleShortenCommand(us, chatID, args, in)
      [] command = "stats" -> handleStatsCommand(us, chatID, args, in)
      [] command = "delete" -> handleDeleteCommand(us, chatID, args, in)
      [] command = "my_links" -> handleMyLinksCommand(us, chatID, in)
      [] OTHER -> sendMessage(us, <<>>, <<>>, chatID, msgUnknownCommand, <<>>,
                              FALSE, in)

(***************************************************************************)
(* Free-text handlers.                                                     *)
(***************************************************************************)
\* customAliasOf with the alias dropped on the way into the store
customAliasOfDropsAlias(us, userID, alias, in) ==
    IF ~customAliasRegexMatchString(alias)
    THEN sendMessage(us, <<>>, <<>>, userID, msgInvalidAliasFormat, <<>>,
                     FALSE, in)
    ELSE sendMessage(setUserState(us, userID, StateWaitingForURL, <<>>),
                     <<>>, <<>>, userID, msgSendUrlWithAlias, <<alias>>,
                     FALSE, in)

\* customAliasOf with the store cleared when the alias is rejected
customAliasOfResetsOnError(us, userID, alias, in) ==
    IF ~customAliasRegexMatchString(alias)
    THEN sendMessage(resetUserState(us, userID), <<>>, <<>>, userID,
                     msgInvalidAliasFormat, <<>>, FALSE, in)
    ELSE sendMessage(setUserState(us, userID, StateWaitingForURL, alias),
                     <<>>, <<>>, userID, msgSendUrlWithAlias, <<alias>>,
                     FALSE, in)

\* handleCustomAliasInput after alias = strings.TrimSpace(alias)
customAliasOf(us, userID, alias, in) ==
    IF ~customAliasRegexMatchString(alias)
    THEN sendMessage(us, <<>>, <<>>, userID, msgInvalidAliasFormat, <<>>,
                     FALSE, in)
    ELSE sendMessage(setUserState(us, userID, StateWaitingForURL, alias),
                     <<>>, <<>>, userID, msgSendUrlWithAlias, <<alias>>,
                     FALSE, in)

handleCustomAliasInput(us, userID, text, in) ==
    customAliasOf(us, userID, TrimSpace(text), in)

\* urlInputWith with the reset done on success only, not deferred
urlInputWithResetOnSuccess(us, userID, urlMatch, customAlias, in) ==
    LET req == [OriginalUrl |-> urlMatch,
                UserTgId |-> userID,
                Title |-> Nil,
                CustomAlias |-> Ptr(customAlias),
                ExpiresAt |-> Nil]
        calls == <<Call("CreateLink", req, in)>>
        logged == clientLog("CreateLink", in)
    IN  IF urlMatch = <<>>
        THEN sendMessage(resetUserState(us, userID), <<>>, <<>>, userID,
                         msgInvalidShortenFormat, <<>>, FALSE, in)
        ELSE IF in.reply.code # CodeOK
        THEN IF in.reply.code = CodeAlreadyExists
             THEN sendMessage(us, calls, logged, userID, msgAliasTaken,
                              <<customAlias>>, FALSE, in)
             ELSE sendMessage(us, calls, logged \o <<"gRPC CreateLink failed">>,
                              userID, msgInternalError, <<>>, FALSE, in)
        ELSE sendMessageWithKeyboard(resetUserState(us, userID), calls, logged,
                 userID, msgLinkSuccessfullyShortened,
                 <<BaseURL \o <<"/">> \o in.reply.alias>>,
                 createLinkActionsKeyboard(in.reply.alias), in)

\* urlInputWith with the state kept, for another try, when no URL is found
urlInputWithKeepOnFormatError(us, userID, urlMatch, customAlias, in) ==
    LET req == [OriginalUrl |-> urlMatch,
                UserTgId |-> userID,
                Title |-> Nil,
                CustomAlias |-> Ptr(customAlias),
                ExpiresAt |-> Nil]
        calls == <<Call("CreateLink", req, in)>>
        logged == clientLog("CreateLink", in)
        after == resetUserState(us, userID)
    IN  IF urlMatch = <<>>
        THEN sendMessage(us, <<>>, <<>>, userID, msgInvalidShortenFormat, <<>>,
                         FALSE, in)
        ELSE IF in.reply.code # CodeOK
        THEN IF in.reply.code = CodeAlreadyExists
             THEN sendMessage(after, calls, logged, userID, msgAliasTaken,
                              <<customAlias>>, FALSE, in)
             ELSE sendMessage(after, calls, logged \o <<"gRPC CreateLink failed">>,
                              userID, msgInternalError, <<>>, FALSE, in)
        ELSE sendMessageWithKeyboard(after, calls, logged, userID,
                 msgLinkSuccessfullyShortened,
                 <<BaseURL \o <<"/">> \o in.reply.alias>>,
                 createLinkActionsKeyboard(in.reply.alias), in)

\* handleURLInputWithAlias once the URL is matched.  The deferred
\* resetUserState runs on every return.
urlInputWith(us, userID, urlMatch, customAlias, in) ==
    LET req == [OriginalUrl |-> urlMatch,
                UserTgId |-> userID,
                Title |-> Nil,
                CustomAlias |-> Ptr(customAlias),
                ExpiresAt |-> Nil]
        calls == <<Call("CreateLink", req, in)>>
        logged == clientLog("CreateLink", in)
        after == resetUserState(us, userID)
    IN  IF urlMatch = <<>>
        THEN sendMessage(after, <<>>, <<>>, userID, msgInvalidShortenFormat, <<>>,
                         FALSE, in)
        ELSE IF in.reply.code # CodeOK
        THEN IF in.reply.code = CodeAlreadyExists
             THEN sendMessage(after, calls, logged, userID, msgAliasTaken,
                              <<customAlias>>, FALSE, in)
             ELSE sendMessage(after, calls, logged \o <<"gRPC CreateLink failed">>,
                              userID, msgInternalError, <<>>, FALSE, in)
        ELSE sendMessageWithKeyboard(after, calls, logged, userID,
                 msgLinkSuccessfullyShortened,
                 <<BaseURL \o <<"/">> \o in.reply.alias>>,
                 createLinkActionsKeyboard(in.reply.alias), in)

handleURLInputWithAlias(us, userID, text, customAlias, in) ==
    urlInputWith(us, userID, urlRegexFindString(text), customAlias, in)

handleMessage(us, userID, text, in) ==
    LET state == getUserState(us, userID)
    IN  CASE state.State = StateWaitingForAlias ->
               handleCustomAliasInput(us, userID, text, in)
          [] state.State = StateWaitingForURL ->
               handleURLInputWithAlias(us, userID, text, state.CustomAlias, in)
          [] OTHER ->
               IF urlRegexMatchString(text)
               THEN handleShortenCommand(us, userID, text, in)
               ELSE sendMessageWithKeyboard(us, <<>>, <<>>, userID,
                        msgUseShortenCommand, <<>>, createMainKeyboard, in)

(***************************************************************************)
(* Callback queries from inline buttons.  The callback is answered first;  *)
(* a failed answer is logged and handling goes on.                         *)
(***************************************************************************)
AnswerCallback == [text |-> "answerCallback"]

\* callbackRoute with the help button wired to the list of links
callbackRouteHelpLists(us, chatID, data, in) ==
    IF data = callbackCreateLink
    THEN sendMessageWithKeyboard(us, <<>>, <<>>, chatID, msgSendURLPrompt, <<>>,
                                 createCreateLinkKeyboard, in)
    ELSE IF data = callbackMyLinks \/ data = callbackHelp
    THEN handleMyLinksCommand(us, chatID, in)
    ELSE IF HasAt(data, 1, kStats)
    THEN handleStatsCommand(us, chatID, TrimPrefix(data, kStats), in)
    ELSE IF HasAt(data, 1, kDelete)
    THEN handleDeleteCommand(us, chatID, TrimPrefix(data, kDelete), in)
    ELSE IF data = callbackCustomAlias
    THEN sendMessage(setUserState(us, chatID, StateWaitingForAlias, <<>>),
                     <<>>, <<>>, chatID, msgSendCustomAlias, <<>>, FALSE, in)
    ELSE Result(us, <<>>, <<>>, <<>>, FALSE, FALSE)

\* callbackRoute with the cancel token dropping the user's record
callbackRouteCancelResets(us, chatID, data, in) ==
    IF data = callbackCreateLink
    THEN sendMessageWithKeyboard(us, <<>>, <<>>, chatID, msgSendURLPrompt, <<>>,
                                 createCreateLinkKeyboard, in)
    ELSE IF data = callbackMyLinks
    THEN handleMyLinksCommand(us, chatID, in)
    ELSE IF data = callbackHelp
    THEN sendMessageWithKeyboard(us, <<>>, <<>>, chatID, msgHelp, <<>>,
                                 createMainKeyboard, in)
    ELSE IF HasAt(data, 1, kStats)
    THEN handleStatsCommand(us, chatID, TrimPrefix(data, kStats), in)
    ELSE IF HasAt(data, 1, kDelete)
    THEN handleDeleteCommand(us, chatID, TrimPrefix(data, kDelete), in)
    ELSE IF data = callbackCustomAlias
    THEN sendMessage(setUserState(us, chatID, StateWaitingForAlias, <<>>),
                     <<>>, <<>>, chatID, msgSendCustomAlias, <<>>, FALSE, in)
    ELSE IF data = callbackCancel
    THEN Result(resetUserState(us, chatID), <<>>, <<>>, <<>>, FALSE, FALSE)
    ELSE Result(us, <<>>, <<>>, <<>>, FALSE, FALSE)

callbackRoute(us, chatID, data, in) ==
    IF data = callbackCreateLink
    THEN sendMessageWithKeyboard(us, <<>>, <<>>, chatID, msgSendURLPrompt, <<>>,
                                 createCreateLinkKeyboard, in)
    ELSE IF data = callbackMyLinks
    THEN handleMyLinksCommand(us, chatID, in)
    ELSE IF data = callbackHelp
    THEN sendMessageWithKeyboard(us, <<>>, <<>>, chatID, msgHelp, <<>>,
                                 createMainKeyboard, in)
    ELSE IF HasAt(data, 1, kStats)
    THEN handleStatsCommand(us, chatID, TrimPrefix(data, kStats), in)
    ELSE IF HasAt(data, 1, kDelete)
    THEN handleDeleteCommand(us, chatID, TrimPrefix(data, kDelete), in)
    ELSE IF data = callbackCustomAlias
    THEN sendMessage(setUserState(us, chatID, StateWaitingForAlias, <<>>),
                     <<>>, <<>>, chatID, msgSendCustomAlias, <<>>, FALSE, in)
    ELSE Result(us, <<>>, <<>>, <<>>, FALSE, FALSE)

\* The answer to the callback goes out before the switch.
answered(r, in) ==
    [r EXCEPT !.sent = <<AnswerCallback>> \o r.sent,
              !.logged = (IF in.ackOk THEN <<>>
                          ELSE <<"failed to answer callback">>) \o r.logged]

handleCallbackQuery(us, chatID, data, in) ==
    answered(callbackRoute(us, chatID, data, in), in)

(***************************************************************************)
(* processUpdate: one update of the stream, run to completion.             *)
(***************************************************************************)
Update(kind, chatID, command, text) ==
    [kind |-> kind, chatID |-> chatID, command |-> command, text |-> text]

\* The handler for the update's kind.
route(us, update, in) ==
    CASE update.kind = "callback" ->
           handleCallbackQuery(us, update.chatID, update.text, in)
      [] update.kind = "command" ->
           handleCommand(us, update.chatID, update.command, update.text, in)
      [] update.kind = "message" ->
           handleMessage(us, update.chatID, update.text, in)
      [] OTHER -> Result(us, <<>>, <<>>, <<>>, FALSE, FALSE)

\* A handler's error is logged, nothing else.
logFailure(update, r) ==
    IF ~r.err THEN r
    ELSE [r EXCEPT !.logged = r.logged \o
            << CASE update.kind = "callback" -> "failed to handle callback query"
                 [] update.kind = "command" -> "failed to handle command"
                 [] OTHER -> "failed to handle message" >>]

processUpdate(us, update, in) == logFailure(update, route(us, update, in))

(***************************************************************************)
(* The inputs of the model.                                                *)
(***************************************************************************)
\* Chat identities
Users == {1, 2}

\* The clock runs from 0 to MaxNow seconds.
MaxNow == 1

SP == <<" ">>
urlX == kHttps \o <<"x">>
urlY == kHttp \o <<"y">>
aliasZ == <<"z">>
alias20 == [i \in 1..MaxAliasLen |-> "a"]
alias21 == [i \in 1..(MaxAliasLen + 1) |-> "a"]
textTitle == kTitleEq \o <<"T", QUOTE>>

\* Texts without a URL-shaped substring
PlainTexts ==
    { <<>>,
      <<"h","i">>,
      SP \o aliasZ \o SP,
      <<"a","_","b">>,
      <<"a"," ","b">>,
      alias20,
      alias21,
      kHttps \o SP \o <<"x">>,
      kAliasEq \o aliasZ }

\* Texts with one
UrlTexts ==
    { urlX,
      <<"s","e","e",":">> \o SP \o urlX \o SP \o urlY,
      urlX \o SP \o kAliasEq \o aliasZ,
      urlX \o SP \o kAliasEq \o <<"a","_","b">>,
      urlX \o SP \o kAliasEq \o alias21,
      urlX \o SP \o textTitle,
      urlX \o SP \o kExpiresInEq \o <<"2","h">>,
      urlX \o SP \o kExpiresInEq \o <<"7","d">>,
      urlX \o SP \o kExpiresInEq \o <<"3","0","m">>,
      urlX \o SP \o kExpiresInEq \o <<"1","h","3","0","m">>,
      urlX \o SP \o kExpiresInEq \o <<"1","0">>,
      urlX \o SP \o textTitle \o SP \o kExpiresInEq \o <<"2","h">>
           \o SP \o kAliasEq \o aliasZ }

Texts == PlainTexts \cup UrlTexts

\* Arguments of /stats and /delete
AliasArgs == { <<>>, SP, <<"NBSP">>, aliasZ, SP \o aliasZ \o SP }

Commands == {"start", "shorten", "stats", "delete", "my_links", "bogus"}

CommandArgs(command) ==
    CASE command = "shorten" -> Texts
      [] command \in {"stats", "delete"} -> AliasArgs
      [] OTHER -> { <<>>, urlX }

\* Button tokens
CallbackData ==
    { callbackCreateLink, callbackMyLinks, callbackHelp, callbackCancel,
      callbackCustomAlias,
      kStats \o aliasZ, kStats, kStats \o SP,
      kDelete \o aliasZ, kDelete, kDelete \o <<"NBSP">>,
      <<"s","t","a","t","s">> }

\* What the backend can answer.  A handler reads the code and, of a
\* successful answer, the part its operation returns.
linkZ == [Alias |-> aliasZ, OriginalUrl |-> urlX, Title |-> Ptr(<<"T">>)]
linkG == [Alias |-> <<"g">>, OriginalUrl |-> urlY, Title |-> Nil]
statsZ == [OriginalUrl |-> urlX, ClickCount |-> 3, Title |-> Ptr(<<"T">>),
           ExpiresAt |-> Nil, ClicksByDevice |-> {<<"mobile", 3>>}]
statsG == [OriginalUrl |-> urlY, ClickCount |-> 0, Title |-> Nil,
           ExpiresAt |-> Ptr([sec |-> 7200, nsec |-> 0]), ClicksByDevice |-> {}]

Reply(code, alias, links, stats) ==
    [code |-> code, alias |-> alias, links |-> links, stats |-> stats]

Replies ==
    { Reply(CodeOK, aliasZ, <<linkZ, linkG>>, statsZ),
      Reply(CodeOK, <<"g">>, <<>>, statsG),
      Reply(CodeAlreadyExists, <<>>, <<>>, statsG),
      Reply(CodeNotFound, <<>>, <<>>, statsG),
      Reply(CodeUnavailable, <<>>, <<>>, statsG) }

(***************************************************************************)
(* State.                                                                  *)
(***************************************************************************)
VARIABLES
    userStates, \* Bot.userStates: chat id -> UserState, absent when normal
    clock,      \* time.Now(), in seconds
    pc,         \* where the loop of Start is: "select", "processing",
                \* "handled", "blocked" (in a backend call), "returned"
    crashed,    \* the dispatch goroutine panicked: the process is gone
    ev,         \* the update taken from the channel
    pre,        \* userStates when processUpdate was entered
    calls,      \* the backend calls made while processing the update
    sent,       \* the requests handed to the transport while processing it
    logged,     \* what was logged while processing it
    updates,    \* the updates waiting in the channel of getUpdatesChannel
    ctxDone,    \* main has called cancel(): ctx.Done() is closed
    mainPc      \* where main is: "waiting" (for a signal), "cancelled",
                \* "exited" (main returned: the process has ended)

vars ==
    <<userStates, clock, pc, crashed, ev, pre, calls, sent, logged,
      updates, ctxDone, mainPc>>

NoUpdate == Update("none", 0, "", <<>>)

Init ==
    /\ userStates = <<>>
    /\ clock = 0
    /\ pc = "select"
    /\ crashed = FALSE
    /\ ev = NoUpdate
    /\ pre = <<>>
    /\ calls = <<>>
    /\ sent = <<>>
    /\ logged = <<>>
    /\ updates = <<>>
    /\ ctxDone = FALSE
    /\ mainPc = "waiting"

\* The process is alive: main has not returned and no goroutine has panicked.
Running == mainPc # "exited" /\ ~crashed

\* case update := <-updates, the update arriving while the loop waits for it
Receive(update) ==
    /\ Running
    /\ pc = "select"
    /\ updates = <<>>
    /\ pc' = "processing"
    /\ ev' = update
    /\ UNCHANGED <<userStates, clock, crashed, pre, calls, sent, logged,
                   updates, ctxDone, mainPc>>

CallbackUpdate ==
    \E u \in Users, data \in CallbackData :
        Receive(Update("callback", u, "", data))

CommandUpdate ==
    \E u \in Users, command \in Commands :
        \E args \in CommandArgs(command) :
            Receive(Update("command", u, command, args))

MessageUpdate ==
    \E u \in Users, text \in Texts :
        Receive(Update("message", u, "", text))

\* An update that carries neither a callback query nor a message.
OtherUpdate ==
    \E u \in Users :
        Receive(Update("other", u, "", <<>>))

Input(reply, sendOk, ackOk) ==
    [reply |-> reply, sendOk |-> sendOk, ackOk |-> ackOk, now |-> clock]

\* What processUpdate leaves behind.
Outcome(r) ==
    /\ userStates' = r.us
    /\ crashed' = r.panicked
    /\ calls' = r.calls
    /\ sent' = r.sent
    /\ logged' = r.logged

\* b.processUpdate(update), run to its return or to a panic.
ProcessUpdate ==
    /\ Running
    /\ pc = "processing"
    /\ \E reply \in Replies, sendOk \in BOOLEAN,
          ackOk \in (IF ev.kind = "callback" THEN BOOLEAN ELSE {TRUE}) :
          Outcome(processUpdate(userStates, ev, Input(reply, sendOk, ackOk)))
    /\ pc' = "handled"
    /\ pre' = userStates
    /\ UNCHANGED <<clock, ev, updates, ctxDone, mainPc>>

\* Back to the select of the loop; a panicked goroutine never gets there.
Loop ==
    /\ Running
    /\ pc = "handled"
    /\ pc' = "select"
    /\ ev' = NoUpdate
    /\ pre' = <<>>
    /\ calls' = <<>>
    /\ sent' = <<>>
    /\ logged' = <<>>
    /\ UNCHANGED <<userStates, clock, crashed, updates, ctxDone, mainPc>>

Tick ==
    /\ Running
    /\ pc = "select"
    /\ clock < MaxNow
    /\ clock' = clock + 1
    /\ UNCHANGED <<userStates, pc, crashed, ev, pre, calls, sent, logged,
                   updates, ctxDone, mainPc>>

Next ==
    \/ CallbackUpdate
    \/ CommandUpdate
    \/ MessageUpdate
    \/ OtherUpdate
    \/ ProcessUpdate
    \/ Loop
    \/ Tick

Spec == Init /\ [][Next]_vars

(***************************************************************************)
(* The loop of Start with its channel, and the shutdown of main.  Updates  *)
(* queue up in the channel while the loop is busy; main cancels the        *)
(* context on a signal and returns without waiting for the goroutine.      *)
(***************************************************************************)
\* The most updates the channel is let hold.
MaxPending == 2

\* The updates that arrive here
LoopUpdates ==
    { Update("callback", 1, "", callbackCustomAlias),
      Update("message", 1, "", aliasZ),
      Update("message", 1, "", urlX),
      Update("command", 2, "stats", aliasZ) }

\* The transport puts an update into the channel.
Arrive ==
    /\ Running
    /\ pc # "returned"
    /\ Len(updates) < MaxPending
    /\ \E update \in LoopUpdates : updates' = Append(updates, update)
    /\ UNCHANGED <<userStates, clock, pc, crashed, ev, pre, calls, sent, logged,
                   ctxDone, mainPc>>

\* Take with the newest update of the channel taken first
TakeNewest ==
    /\ Running
    /\ pc = "select"
    /\ updates # <<>>
    /\ pc' = "processing"
    /\ ev' = updates[Len(updates)]
    /\ updates' = SubSeq(updates, 1, Len(updates) - 1)
    /\ UNCHANGED <<userStates, clock, crashed, pre, calls, sent, logged,
                   ctxDone, mainPc>>

\* case update := <-updates.  The select takes any case that is ready: a
\* closed ctx.Done() does not keep it from taking an update.
Take ==
    /\ Running
    /\ pc = "select"
    /\ updates # <<>>
    /\ pc' = "processing"
    /\ ev' = Head(updates)
    /\ updates' = Tail(updates)
    /\ UNCHANGED <<userStates, clock, crashed, pre, calls, sent, logged,
                   ctxDone, mainPc>>

\* case <-ctx.Done(): b.api.StopReceivingUpdates(); return
Stop ==
    /\ Running
    /\ pc = "select"
    /\ ctxDone
    /\ pc' = "returned"
    /\ UNCHANGED <<userStates, clock, crashed, ev, pre, calls, sent, logged,
                   updates, ctxDone, mainPc>>

\* The deadline of the context the handlers hand to the backend client:
\* context.Background() has none.
callDeadline == Nil

CodePending == "Pending"

\* What is done of the update when the handler enters its backend call
Waiting(r, ackOk) ==
    /\ r.calls # <<>>
    /\ calls' = <<[op |-> r.calls[1].op, req |-> r.calls[1].req,
                   code |-> CodePending]>>
    /\ sent' = IF ev.kind = "callback" THEN <<AnswerCallback>> ELSE <<>>
    /\ logged' = IF ev.kind = "callback" /\ ~ackOk
                 THEN <<"failed to answer callback">> ELSE <<>>

\* processUpdate reaches its backend call and the remote service never
\* answers: with no deadline on the context the call does not return.
BlockedCall ==
    /\ Running
    /\ pc = "processing"
    /\ callDeadline = Nil
    /\ \E ackOk \in (IF ev.kind = "callback" THEN BOOLEAN ELSE {TRUE}) :
          Waiting(processUpdate(userStates, ev,
                      Input(Reply(CodeUnavailable, <<>>, <<>>, statsG), TRUE, ackOk)),
                  ackOk)
    /\ pc' = "blocked"
    /\ pre' = userStates
    /\ UNCHANGED <<userStates, clock, crashed, ev, updates, ctxDone, mainPc>>

\* main: <-quit; cancel()
Cancel ==
    /\ mainPc = "waiting"
    /\ ~crashed
    /\ ctxDone' = TRUE
    /\ mainPc' = "cancelled"
    /\ UNCHANGED <<userStates, clock, pc, crashed, ev, pre, calls, sent, logged,
                   updates>>

\* main returns after cancel(): the process ends, whatever the goroutine of
\* Start is doing.
MainReturn ==
    /\ mainPc = "cancelled"
    /\ ~crashed
    /\ mainPc' = "exited"
    /\ UNCHANGED <<userStates, clock, pc, crashed, ev, pre, calls, sent, logged,
                   updates, ctxDone>>

NextLoop ==
    \/ Arrive
    \/ Take
    \/ Stop
    \/ ProcessUpdate
    \/ BlockedCall
    \/ Loop
    \/ Cancel
    \/ MainReturn

SpecLoop == Init /\ [][NextLoop]_vars

(***************************************************************************)
(* Vocabulary of the properties.  These state what the specification of    *)
(* the bot means by its words, independently of how bot.go computes them.  *)
(***************************************************************************)
\* processUpdate has returned (or panicked) for the update ev
Handled == pc = "handled"

\* The conversation state of ev's user before and after the update
StateBefore == getUserState(pre, ev.chatID)
StateAfter == getUserState(userStates, ev.chatID)
IdleAfter == ev.chatID \notin DOMAIN userStates

FreeText == Handled /\ ev.kind = "message"
ButtonPress == Handled /\ ev.kind = "callback"
SlashCommand(name) == Handled /\ ev.kind = "command" /\ ev.command = name

\* The messages sent to the user (the callback answer is not one)
Messages == SelectSeq(sent, LAMBDA m : m.text # AnswerCallback.text)

\* t[i..j] is URL-shaped: http:// or https://, then at least one more
\* character, and no white space anywhere.
URLSpan(t, i, j) ==
    /\ j <= Len(t)
    /\ \/ HasAt(t, i, kHttp) /\ j >= i + Len(kHttp)
       \/ HasAt(t, i, kHttps) /\ j >= i + Len(kHttps)
    /\ \A k \in i..j : t[k] \notin SpaceChars

ContainsURL(t) == \E i \in 1..Len(t) : \E j \in i..Len(t) : URLSpan(t, i, j)

\* s is the first URL-shaped substring of t: none starts further left, and
\* it runs as far as the white space allows.
IsFirstURL(t, s) ==
    \E i \in 1..Len(t) : \E j \in i..Len(t) :
        /\ URLSpan(t, i, j)
        /\ s = SubSeq(t, i, j)
        /\ \A i2 \in 1..(i - 1) : \A j2 \in i2..Len(t) : ~URLSpan(t, i2, j2)
        /\ \A j2 \in (j + 1)..Len(t) : ~URLSpan(t, i, j2)

\* The alias pattern: 1 to 20 letters, digits or hyphens
MatchesAliasPattern(a) ==
    /\ Len(a) \in 1..20
    /\ \A i \in 1..Len(a) :
          a[i] \in LowerLetters \cup UpperLetters \cup Digits \cup {"-"}

\* t is empty or white space only
Blank(t) == \A k \in 1..Len(t) : t[k] \in UnicodeSpaceChars

\* t[i..j] is t without the white space at its two ends
TrimmedSpan(t, i, j) ==
    /\ t[i] \notin UnicodeSpaceChars
    /\ t[j] \notin UnicodeSpaceChars
    /\ \A k \in (1..(i - 1)) \cup ((j + 1)..Len(t)) : t[k] \in UnicodeSpaceChars

\* t, without the white space at its ends, does not match the alias pattern
TrimmedIsNoAlias(t) ==
    \/ Blank(t)
    \/ \E i \in 1..Len(t) : \E j \in i..Len(t) :
          TrimmedSpan(t, i, j) /\ ~MatchesAliasPattern(SubSeq(t, i, j))

(***************************************************************************)
(* C1: in AwaitingURLForAlias(a), a free-text message with a URL-shaped    *)
(* substring makes exactly one backend call, a CreateLink carrying the     *)
(* first URL-shaped substring and the alias a, and leaves the user Idle    *)
(* whatever the call returns.                                              *)
(***************************************************************************)
C1_UrlForAliasCreatesOnce ==
    (FreeText /\ StateBefore.State = StateWaitingForURL /\ ContainsURL(ev.text))
    => /\ Len(calls) = 1
       /\ calls[1].op = "CreateLink"
       /\ IsFirstURL(ev.text, calls[1].req.OriginalUrl)
       /\ calls[1].req.CustomAlias = Ptr(StateBefore.CustomAlias)
       /\ IdleAfter

C1_Witness ==
    /\ FreeText
    /\ StateBefore = UserState(StateWaitingForURL, aliasZ)
    /\ ev.text = <<"s","e","e",":">> \o SP \o urlX \o SP \o urlY
    /\ Len(calls) = 1
    /\ calls[1].req.OriginalUrl = urlX
    /\ calls[1].code = CodeAlreadyExists
    /\ IdleAfter

(***************************************************************************)
(* C2: in AwaitingCustomAlias, a free-text message matching the alias      *)
(* pattern moves the user to AwaitingURLForAlias with the alias exactly as *)
(* supplied, sends the prompt for the URL and makes no backend call.       *)
(***************************************************************************)
C2_ValidAliasAdvances ==
    (FreeText /\ StateBefore.State = StateWaitingForAlias
        /\ MatchesAliasPattern(ev.text))
    => /\ StateAfter = UserState(StateWaitingForURL, ev.text)
       /\ calls = <<>>
       /\ Len(Messages) = 1
       /\ Messages[1].text = msgSendUrlWithAlias
       /\ Messages[1].args = <<ev.text>>

C2_Witness ==
    /\ FreeText
    /\ StateBefore.State = StateWaitingForAlias
    /\ ev.text = alias20
    /\ StateAfter = UserState(StateWaitingForURL, alias20)
    /\ calls = <<>>

(***************************************************************************)
(* C3, as claimed: in AwaitingCustomAlias, a free-text message that does   *)
(* not match the alias pattern gets the validation error, makes no backend *)
(* call and leaves the user in AwaitingCustomAlias.                        *)
(***************************************************************************)
C3_AsClaimed ==
    (FreeText /\ StateBefore.State = StateWaitingForAlias
        /\ ~MatchesAliasPattern(ev.text))
    => /\ Len(Messages) = 1
       /\ Messages[1].text = msgInvalidAliasFormat
       /\ calls = <<>>
       /\ StateAfter.State = StateWaitingForAlias

(***************************************************************************)
(* C3, amended: in AwaitingCustomAlias, a free-text message that does not  *)
(* match the alias pattern once the white space at its ends is removed     *)
(* gets the validation error, makes no backend call and leaves the user's  *)
(* record as it was.                                                       *)
(***************************************************************************)
C3_InvalidAliasRejected ==
    (FreeText /\ StateBefore.State = StateWaitingForAlias
        /\ TrimmedIsNoAlias(ev.text))
    => /\ Len(Messages) = 1
       /\ Messages[1].text = msgInvalidAliasFormat
       /\ calls = <<>>
       /\ StateAfter = StateBefore
       /\ StateAfter.State = StateWaitingForAlias

C3_Witness ==
    /\ FreeText
    /\ StateBefore.State = StateWaitingForAlias
    /\ ev.text = <<"a"," ","b">>
    /\ Messages[1].text = msgInvalidAliasFormat
    /\ StateAfter.State = StateWaitingForAlias

(***************************************************************************)
(* C4: in AwaitingURLForAlias(a), a free-text message with no URL-shaped   *)
(* substring gets the format error, makes no backend call and leaves the   *)
(* user Idle.                                                              *)
(***************************************************************************)
C4_NoUrlResets ==
    (FreeText /\ StateBefore.State = StateWaitingForURL /\ ~ContainsURL(ev.text))
    => /\ Len(Messages) = 1
       /\ Messages[1].text = msgInvalidShortenFormat
       /\ calls = <<>>
       /\ IdleAfter

C4_Witness ==
    /\ FreeText
    /\ StateBefore = UserState(StateWaitingForURL, alias20)
    /\ ev.text = kHttps \o SP \o <<"x">>
    /\ Messages[1].text = msgInvalidShortenFormat
    /\ calls = <<>>
    /\ IdleAfter

(***************************************************************************)
(* C5: whatever the updates and the backend's answers, the dispatch loop   *)
(* never crashes; a failed backend call ends in one message to the user.   *)
(***************************************************************************)
C5_LoopNeverCrashes ==
    Handled
    => /\ ~crashed
       /\ (calls # <<>> /\ calls[1].code # CodeOK) => Len(Messages) = 1

(***************************************************************************)
(* C6, as claimed: a button press makes a backend call only if its token   *)
(* is create_link or has the stats_ or delete_ prefix; my_links, help,     *)
(* custom_alias and unrecognized tokens make none.                         *)
(***************************************************************************)
StatsToken(data) == HasAt(data, 1, kStats)
DeleteToken(data) == HasAt(data, 1, kDelete)

C6_AsClaimed ==
    ButtonPress
    => (calls # <<>>
          => \/ StatsToken(ev.text)
             \/ DeleteToken(ev.text)
             \/ ev.text = callbackCreateLink)

(***************************************************************************)
(* C6, amended: a button press makes a backend call only if its token is   *)
(* my_links (the list of the user's links) or has the stats_ or delete_    *)
(* prefix; create_link, help, custom_alias and unrecognized tokens make    *)
(* none.  No button press makes more than one call.                        *)
(***************************************************************************)
C6_ButtonCalls ==
    ButtonPress
    => /\ Len(calls) <= 1
       /\ calls # <<>>
            => \/ StatsToken(ev.text) /\ calls[1].op = "GetLinkStats"
               \/ DeleteToken(ev.text) /\ calls[1].op = "DeleteLink"
               \/ ev.text = callbackMyLinks /\ calls[1].op = "ListUserLinks"

C6_Witness ==
    /\ ButtonPress
    /\ ev.text = callbackMyLinks
    /\ StateBefore.State = StateWaitingForURL
    /\ Len(calls) = 1
    /\ calls[1].op = "ListUserLinks"

(***************************************************************************)
(* C7: in Idle, a free-text message with a URL-shaped substring makes a    *)
(* CreateLink request built from that substring alone: no title, no custom *)
(* alias and no expiry, whatever title=, alias= or expires_in= the text    *)
(* holds.                                                                  *)
(***************************************************************************)
C7_IdleTextUsesUrlOnly ==
    (FreeText /\ StateBefore.State = StateNormal /\ ContainsURL(ev.text))
    => /\ Len(calls) = 1
       /\ calls[1].op = "CreateLink"
       /\ IsFirstURL(ev.text, calls[1].req.OriginalUrl)
       /\ calls[1].req.Title = Nil
       /\ calls[1].req.CustomAlias = Nil
       /\ calls[1].req.ExpiresAt = Nil

(***************************************************************************)
(* C8: when the handling of an update ends in a terminal outcome, the link *)
(* created or the format error, the user is Idle afterwards.               *)
(***************************************************************************)
TerminalOutcome ==
    /\ Handled
    /\ Len(Messages) = 1
    /\ Messages[1].text \in {msgLinkSuccessfullyShortened, msgInvalidShortenFormat}

C8_TerminalOutcomeResets == TerminalOutcome => IdleAfter

(***************************************************************************)
(* C9: every CreateLink request sent to the backend carries no custom      *)
(* alias or one that matches the alias pattern.                            *)
(***************************************************************************)
C9_CreateLinkAliasWellFormed ==
    \A i \in 1..Len(calls) :
        calls[i].op = "CreateLink"
        => \/ calls[i].req.CustomAlias = Nil
           \/ MatchesAliasPattern(calls[i].req.CustomAlias[1])

(***************************************************************************)
(* C10: an update that lacks its required argument makes no backend call   *)
(* and gets a validation message: /shorten without a URL-shaped substring, *)
(* and /stats, /delete, stats_ or delete_ with an empty or blank alias.    *)
(***************************************************************************)
ShortenWithoutUrl == SlashCommand("shorten") /\ ~ContainsURL(ev.text)

StatsWithoutAlias ==
    \/ SlashCommand("stats") /\ Blank(ev.text)
    \/ ButtonPress /\ StatsToken(ev.text)
         /\ Blank(SubSeq(ev.text, Len(kStats) + 1, Len(ev.text)))

DeleteWithoutAlias ==
    \/ SlashCommand("delete") /\ Blank(ev.text)
    \/ ButtonPress /\ DeleteToken(ev.text)
         /\ Blank(SubSeq(ev.text, Len(kDelete) + 1, Len(ev.text)))

C10_MissingArgumentRejected ==
    /\ (ShortenWithoutUrl \/ StatsWithoutAlias \/ DeleteWithoutAlias)
         => (calls = <<>> /\ Len(Messages) = 1)
    /\ ShortenWithoutUrl => Messages[1].text = msgInvalidShortenFormat
    /\ StatsWithoutAlias =>
         (Messages[1].text = msgInvalidCommandFormat /\ Messages[1].args = <<"stats">>)
    /\ DeleteWithoutAlias =>
         (Messages[1].text = msgInvalidCommandFormat /\ Messages[1].args = <<"delete">>)

C10_Witness ==
    /\ ButtonPress
    /\ ev.text = kDelete \o <<"NBSP">>
    /\ calls = <<>>
    /\ Messages[1].text = msgInvalidCommandFormat

(***************************************************************************)
(* C11: a backend call that fails is reported by operation and status:     *)
(* CreateLink with AlreadyExists gives the alias-taken message naming the  *)
(* requested alias; GetLinkStats or DeleteLink with NotFound gives the     *)
(* not-found message naming the alias; every other failure of any of the   *)
(* four operations gives the internal-error message.                       *)
(***************************************************************************)
FailedCall == Handled /\ calls # <<>> /\ calls[1].code # CodeOK

AliasConflict == calls[1].op = "CreateLink" /\ calls[1].code = CodeAlreadyExists

AliasNotFound ==
    calls[1].op \in {"GetLinkStats", "DeleteLink"} /\ calls[1].code = CodeNotFound

C11_ErrorsMapToOutcomes ==
    FailedCall
    => /\ Len(Messages) = 1
       /\ AliasConflict
            => /\ Messages[1].text = msgAliasTaken
               /\ calls[1].req.CustomAlias # Nil
               /\ Messages[1].args = <<calls[1].req.CustomAlias[1]>>
       /\ AliasNotFound
            => /\ Messages[1].text = msgLinkNotFound
               /\ Messages[1].args = <<calls[1].req.Alias>>
       /\ (~AliasConflict /\ ~AliasNotFound)
            => Messages[1].text = msgInternalError

(***************************************************************************)
(* C12: the handling of one update makes at most one backend call, and a   *)
(* call that fails is not made again: its failure is reported to the user  *)
(* by one message of the same handling.                                    *)
(***************************************************************************)
FailureMessages == {msgAliasTaken, msgLinkNotFound, msgInternalError}

C12_OneCallNoRetry ==
    Handled
    => /\ Len(calls) <= 1
       /\ FailedCall
            => (Len(Messages) = 1 /\ Messages[1].text \in FailureMessages)

(***************************************************************************)
(* C13: the handling of an update of one user neither changes nor reads    *)
(* the record of another user: every other user's record is as it was, and *)
(* the same update handled on a store holding the record of its own user   *)
(* only makes the same calls, sends the same messages and leaves the same  *)
(* record.  By induction over the run, each user's state is then what the  *)
(* user's own updates alone, in the same order, would have made it.        *)
(***************************************************************************)
\* The store cut down to the record of user u
OwnStore(us, u) == [v \in (DOMAIN us) \cap {u} |-> us[v]]

OthersUntouched ==
    \A u \in Users \ {ev.chatID} : OwnStore(userStates, u) = OwnStore(pre, u)

SoloMatches(r) ==
    /\ r.us = OwnStore(userStates, ev.chatID)
    /\ r.calls = calls
    /\ r.sent = sent
    /\ r.logged = logged
    /\ r.panicked = crashed

SameAlone ==
    \E reply \in Replies, sendOk \in BOOLEAN, ackOk \in BOOLEAN :
        SoloMatches(processUpdate(OwnStore(pre, ev.chatID), ev,
                                  Input(reply, sendOk, ackOk)))

C13_UsersDoNotInterfere == Handled => (OthersUntouched /\ SameAlone)

C13_Witness ==
    /\ FreeText
    /\ ev.chatID = 1
    /\ StateBefore = UserState(StateWaitingForURL, aliasZ)
    /\ IdleAfter
    /\ getUserState(pre, 2).State = StateWaitingForAlias
    /\ getUserState(userStates, 2).State = StateWaitingForAlias
    /\ Len(calls) = 1

(***************************************************************************)
(* C17: a slash-command is routed by its name alone.  Whatever the user's  *)
(* conversation state (Idle, AwaitingCustomAlias, AwaitingURLForAlias),    *)
(* the same command with the same arguments and the same answers from the  *)
(* backend and the transport makes the same backend request and sends the  *)
(* same messages as it did in the state it was handled in; a command with  *)
(* an unrecognized name gets the unknown-command message and makes no      *)
(* backend call.                                                           *)
(***************************************************************************)
KnownCommands == {"start", "shorten", "stats", "delete", "my_links"}

\* The store before the update, with ev's user put into each of the states
StoresByState ==
    { resetUserState(pre, ev.chatID),
      setUserState(pre, ev.chatID, StateWaitingForAlias, <<>>),
      setUserState(pre, ev.chatID, StateWaitingForURL, aliasZ),
      setUserState(pre, ev.chatID, StateWaitingForURL, alias20) }

SameOutcome(r) ==
    /\ r.calls = calls
    /\ r.sent = sent
    /\ r.panicked = crashed

SameInEveryState ==
    \E reply \in Replies, sendOk \in BOOLEAN :
        \A us \in StoresByState :
            SameOutcome(processUpdate(us, ev, Input(reply, sendOk, TRUE)))

C17_CommandsIgnoreState ==
    (Handled /\ ev.kind = "command")
    => /\ SameInEveryState
       /\ ev.command \notin KnownCommands
            => /\ calls = <<>>
               /\ Len(Messages) = 1
               /\ Messages[1].text = msgUnknownCommand

C17_Witness ==
    /\ SlashCommand("stats")
    /\ StateBefore = UserState(StateWaitingForURL, aliasZ)
    /\ Len(calls) = 1
    /\ calls[1].op = "GetLinkStats"
    /\ calls[1].code = CodeNotFound
    /\ Messages[1].text = msgLinkNotFound

(***************************************************************************)
(* C18: a /shorten command with a URL and an expires_in value that does    *)
(* not parse as a duration makes exactly one CreateLink request, for the   *)
(* URL and with no expiry; the value causes no validation or error         *)
(* message: when the backend accepts the request the user gets the         *)
(* link-created message.                                                   *)
(***************************************************************************)
ShortenWithURL == SlashCommand("shorten") /\ ContainsURL(ev.text)

\* t holds expires_in=<value> and the value is no duration
UnparsedExpiresIn(t) ==
    /\ expiresInRegexFind(t) # Nil
    /\ ~ParseDuration(expiresInRegexFind(t)[1]).ok

C18_UnparsedExpiryIgnored ==
    (ShortenWithURL /\ UnparsedExpiresIn(ev.text))
    => /\ Len(calls) = 1
       /\ calls[1].op = "CreateLink"
       /\ IsFirstURL(ev.text, calls[1].req.OriginalUrl)
       /\ calls[1].req.ExpiresAt = Nil
       /\ calls[1].code = CodeOK
            => /\ Len(Messages) = 1
               /\ Messages[1].text = msgLinkSuccessfullyShortened

C18_Witness ==
    /\ SlashCommand("shorten")
    /\ ev.text = urlX \o SP \o kExpiresInEq \o <<"1","0">>
    /\ Len(calls) = 1
    /\ calls[1].req.OriginalUrl = urlX
    /\ calls[1].req.ExpiresAt = Nil
    /\ calls[1].code = CodeOK
    /\ Messages[1].text = msgLinkSuccessfullyShortened

(***************************************************************************)
(* C19: a /shorten command with a URL and expires_in given as 30m, 2h, 7d  *)
(* or 1h30m makes a CreateLink request whose expiry is the time of the     *)
(* call plus that duration: 30 minutes, 2 hours, 7 days, an hour and a     *)
(* half.                                                                   *)
(***************************************************************************)
\* The documented forms of expires_in and the seconds each stands for
DocumentedSeconds ==
    (<<"3","0","m">> :> 30 * 60) @@
    (<<"2","h">> :> 2 * 3600) @@
    (<<"7","d">> :> 7 * 24 * 3600) @@
    (<<"1","h","3","0","m">> :> 3600 + 30 * 60)

DocumentedExpiresIn(t) ==
    /\ expiresInRegexFind(t) # Nil
    /\ expiresInRegexFind(t)[1] \in DOMAIN DocumentedSeconds

ExpiryFor(t) ==
    [sec |-> clock + DocumentedSeconds[expiresInRegexFind(t)[1]], nsec |-> 0]

C19_DocumentedExpirySet ==
    (ShortenWithURL /\ DocumentedExpiresIn(ev.text))
    => /\ Len(calls) = 1
       /\ calls[1].op = "CreateLink"
       /\ calls[1].req.ExpiresAt = Ptr(ExpiryFor(ev.text))

(***************************************************************************)
(* C20, as claimed: the store of conversation states changes by three      *)
(* transitions only, each writing the whole record of the update's user:   *)
(* the custom_alias button sets AwaitingCustomAlias with no alias, from    *)
(* any state; a free text matching the alias pattern in                    *)
(* AwaitingCustomAlias sets AwaitingURLForAlias with that text; any free   *)
(* text in AwaitingURLForAlias removes the record (Idle).  Every other     *)
(* update leaves the store as it was.                                      *)
(***************************************************************************)
\* The store us with rec as the record of user u, and with no record of u
WithRecord(us, u, rec) ==
    [v \in (DOMAIN us) \cup {u} |-> IF v = u THEN rec ELSE us[v]]

WithoutRecord(us, u) == [v \in (DOMAIN us) \ {u} |-> us[v]]

CustomAliasButton == ButtonPress /\ ev.text = callbackCustomAlias

TextAwaitingAlias == FreeText /\ StateBefore.State = StateWaitingForAlias

TextAwaitingURL == FreeText /\ StateBefore.State = StateWaitingForURL

C20_AsClaimed ==
    Handled
    => userStates =
         IF CustomAliasButton
         THEN WithRecord(pre, ev.chatID, UserState(StateWaitingForAlias, <<>>))
         ELSE IF TextAwaitingAlias /\ MatchesAliasPattern(ev.text)
         THEN WithRecord(pre, ev.chatID, UserState(StateWaitingForURL, ev.text))
         ELSE IF TextAwaitingURL
         THEN WithoutRecord(pre, ev.chatID)
         ELSE pre

(***************************************************************************)
(* C20, amended: as above, but the alias text is judged and stored without *)
(* the white space at its ends: a free text in AwaitingCustomAlias whose   *)
(* trimmed form matches the alias pattern sets AwaitingURLForAlias with    *)
(* the trimmed form; a free text whose trimmed form does not match leaves  *)
(* the store as it was.                                                    *)
(***************************************************************************)
\* a is t without the white space at its ends, and matches the alias pattern
TrimmedAlias(t, a) ==
    /\ MatchesAliasPattern(a)
    /\ \E i \in 1..Len(t) : \E j \in i..Len(t) :
          TrimmedSpan(t, i, j) /\ a = SubSeq(t, i, j)

C20_StateChangesOnlyBy ==
    Handled
    => IF CustomAliasButton
       THEN userStates = WithRecord(pre, ev.chatID, UserState(StateWaitingForAlias, <<>>))
       ELSE IF TextAwaitingAlias /\ ~TrimmedIsNoAlias(ev.text)
       THEN /\ TrimmedAlias(ev.text, StateAfter.CustomAlias)
            /\ userStates = WithRecord(pre, ev.chatID,
                   UserState(StateWaitingForURL, StateAfter.CustomAlias))
       ELSE IF TextAwaitingURL
       THEN userStates = WithoutRecord(pre, ev.chatID)
       ELSE userStates = pre

C20_Witness ==
    /\ TextAwaitingAlias
    /\ ev.text = SP \o aliasZ \o SP
    /\ StateAfter = UserState(StateWaitingForURL, aliasZ)
    /\ getUserState(userStates, 3 - ev.chatID).State = StateWaitingForURL

(***************************************************************************)
(* C14: the loop handles the updates one at a time and in the order of     *)
(* their arrival.  An update enters the pipeline only when the loop is at  *)
(* its select with the pipeline of the update before it complete, and it   *)
(* is the oldest update of the channel; arriving updates queue up behind   *)
(* the waiting ones; the store changes only in the step that completes the *)
(* pipeline of the update in hand, and only in the record of its user.     *)
(***************************************************************************)
\* An update enters the pipeline in this step
TakesUpdate == ev' # ev /\ ev' # NoUpdate

TakenInOrder ==
    /\ pc = "select"
    /\ ev = NoUpdate
    /\ calls = <<>> /\ sent = <<>>
    /\ updates # <<>>
    /\ ev' = Head(updates)
    /\ updates' = Tail(updates)

QueuedBehind ==
    /\ Len(updates') = Len(updates) + 1
    /\ SubSeq(updates', 1, Len(updates)) = updates

MutatesInPipeline ==
    /\ pc = "processing"
    /\ pc' = "handled"
    /\ ev' = ev
    /\ \A u \in Users \ {ev.chatID} :
          OwnStore(userStates', u) = OwnStore(userStates, u)

OneAtATimeInOrder ==
    /\ TakesUpdate => TakenInOrder
    /\ (updates' # updates /\ ~TakesUpdate) => QueuedBehind
    /\ userStates' # userStates => MutatesInPipeline

C14_OneAtATimeInOrder == [][OneAtATimeInOrder]_vars

C14_Witness ==
    /\ Handled
    /\ ev = Update("message", 1, "", aliasZ)
    /\ StateBefore.State = StateWaitingForAlias
    /\ StateAfter = UserState(StateWaitingForURL, aliasZ)
    /\ Len(updates) = 2
    /\ updates[1] = Update("message", 1, "", urlX)
    /\ updates[2] = Update("callback", 1, "", callbackCustomAlias)

(***************************************************************************)
(* C15: once main has cancelled the context, no further update enters the  *)
(* pipeline, even if updates wait in the channel; and when the process     *)
(* ends, no update is left in the middle of its pipeline and the loop has  *)
(* returned, having released the transport (StopReceivingUpdates).         *)
(***************************************************************************)
\* An update has been taken and its pipeline has not completed
InFlight == pc \in {"processing", "blocked"}

NoTakeAfterCancel == ctxDone => ~TakesUpdate

EndsStopped == mainPc = "exited" => (~InFlight /\ pc = "returned")

C15_CancelStopsLoop == [][NoTakeAfterCancel]_vars /\ []EndsStopped

(***************************************************************************)
(* C16: a backend call the pipeline has started returns, by an answer or   *)
(* at its deadline, even if the remote service never answers: whenever the *)
(* loop waits in a backend call while the process runs, a step of the loop *)
(* is possible.                                                            *)
(***************************************************************************)
\* The steps of the dispatch goroutine
LoopStep == Take \/ Stop \/ ProcessUpdate \/ BlockedCall \/ Loop

C16_CallsReturn == (Running /\ pc = "blocked") => ENABLED LoopStep

(***************************************************************************)
(* C21: in every reachable state the store holds at most one record for a  *)
(* user, keyed by the user's chat id; no stored record is in the normal    *)
(* (Idle) state, which is shown by the absence of a record only; a record  *)
(* in AwaitingURLForAlias carries an alias of 1 to 20 letters, digits or   *)
(* hyphens; a record in AwaitingCustomAlias carries the empty alias.       *)
(***************************************************************************)
RecordWellFormed(rec) ==
    /\ rec.State \in {StateWaitingForAlias, StateWaitingForURL}
    /\ rec.State = StateWaitingForURL => MatchesAliasPattern(rec.CustomAlias)
    /\ rec.State = StateWaitingForAlias => rec.CustomAlias = <<>>

C21_StoreWellFormed ==
    /\ DOMAIN userStates \subseteq Users
    /\ \A u \in DOMAIN userStates : RecordWellFormed(userStates[u])

C21_Witness ==
    /\ Handled
    /\ DOMAIN userStates = Users
    /\ userStates[1] = UserState(StateWaitingForURL, alias20)
    /\ userStates[2] = UserState(StateWaitingForAlias, <<>>)
    /\ ev.chatID = 1
    /\ ev.text = alias20

(***************************************************************************)
(* C22: a button press whose token is none of create_link, my_links, help  *)
(* and custom_alias and has neither the stats_ nor the delete_ prefix (the *)
(* declared token cancel among them) is answered to the transport and      *)
(* nothing else: no message goes to the user, no backend call is made and  *)
(* the store of conversation states stays as it was.                       *)
(***************************************************************************)
UnroutedToken(data) ==
    /\ data \notin {callbackCreateLink, callbackMyLinks, callbackHelp,
                    callbackCustomAlias}
    /\ ~StatsToken(data)
    /\ ~DeleteToken(data)

C22_UnroutedButtonOnlyAnswered ==
    (ButtonPress /\ UnroutedToken(ev.text))
    => /\ sent = <<AnswerCallback>>
       /\ Messages = <<>>
       /\ calls = <<>>
       /\ userStates = pre
       /\ ~crashed

C22_Witness ==
    /\ ButtonPress
    /\ ev.text = callbackCancel
    /\ StateBefore = UserState(StateWaitingForURL, aliasZ)
    /\ StateAfter = UserState(StateWaitingForURL, aliasZ)
    /\ sent = <<AnswerCallback>>
    /\ calls = <<>>

====
